---- MODULE Spec2Model ----
(***************************************************************************)
(* The Google-login gateway of src/server.js and src/unnamed/part_000.     *)
(* The repository holds five iterations of one Express script:             *)
(*   "memory"    src/server.js 1-140    (MemoryStore, no allow-list)        *)
(*   "mongo"     src/server.js 142-318  (connect-mongo)                     *)
(*   "redis"     src/server.js 319-521  (connect-redis)                     *)
(*   "vercel"    src/server.js 522-688  (connect-redis, static dashboard)   *)
(*   "postgres"  src/unnamed/part_000   (connect-pg-simple)                 *)
(* The model runs one of them (variant) against a session store, clients   *)
(* that hold a session cookie, and requests that are in flight between     *)
(* their asynchronous steps.  An optional value is a sequence of length 0  *)
(* or 1: <<>> is JavaScript's undefined/null.                              *)
(***************************************************************************)
EXTENDS Integers, Sequences, FiniteSets, TLC

VARIABLES variant, limit, now, store, cookie, reqs

vars == <<variant, limit, now, store, cookie, reqs>>

Variants == {"memory", "mongo", "redis", "vercel", "postgres"}

(* ------------------------------ bounds -------------------------------- *)

\* The clock advances MaxTicks times at most.
MaxTicks == 2
\* The flash slot holds MaxFlash messages at most.
MaxFlash == 1

Clients == {1, 2}
Slots == {1, 2}

(* --------------------------- configuration ---------------------------- *)

\* ttl: 14 * 24 * 60 * 60 (seconds); cookie maxAge is the same span in ms.
Ttl == 14 * 24 * 60 * 60
\* One step of the model's clock: 8 days, in seconds.
Step == 8 * 24 * 60 * 60

StudentDomain == "@stu.pathfinder-mm.org"
ExceptionEmail == "avagarimike11@gmail.com"

\* cookie: { maxAge: 14 days } is configured (with rolling: true).
HasMaxAge(v) == v \in {"redis", "vercel", "postgres"}

\* When a record written now expires: the cookie's expires where maxAge is
\* set, the store's ttl option in the mongo variant, never in MemoryStore
\* without a cookie expiry.
ExpiryAt(v, t) == IF v = "memory" THEN <<>> ELSE <<t + Ttl>>

\* passport.authenticate's failureFlash option.
FailureFlash(v) == v # "memory"
\* passport.authenticate's failureRedirect option.
FailureRedirect(v) ==
  CASE v = "memory" -> "/login.html"
    [] v = "vercel" -> "/auth-failed.html"
    [] OTHER -> "/auth/failure"
\* The variant defines GET /auth/failure.
HasFailureRoute(v) == v \in {"mongo", "redis", "postgres"}
\* The variant defines GET /api/session-info.
HasSessionInfo(v) == v = "vercel"
\* Where ensureLoggedIn sends a request without a user.
EntryPage(v) == IF v = "memory" THEN "/login.html" ELSE "/index.html"
\* The store is a network service whose operations can report an error.
DurableStore(v) == v # "memory"

RejectionMessage(v) ==
  IF v = "mongo"
  THEN "You are not verified student of Pathfinder Institute Myanmar."
  ELSE "You are not a verified student of Pathfinder Institute Myanmar."
GenericMessage == "Login failed."

(* ------------------------------ strings ------------------------------- *)

\* String.prototype.endsWith
EndsWith(s, suffix) ==
  /\ Len(s) >= Len(suffix)
  /\ SubSeq(s, Len(s) - Len(suffix) + 1, Len(s)) = suffix

\* encodeURIComponent on the characters the messages are made of: letters
\* and "." are kept, a space becomes %20.
RECURSIVE EncodeURIComponent(_)
EncodeURIComponent(s) ==
  IF Len(s) = 0 THEN ""
  ELSE LET c == SubSeq(s, 1, 1)
       IN (IF c = " " THEN "%20" ELSE c) \o EncodeURIComponent(Tail(s))

(* --------------------------- provider input --------------------------- *)

\* What the provider's redirect to the callback carries: a profile (after
\* the code exchange), or the user's refusal (error=access_denied).
Profile(es, n) == [kind |-> "profile", emails |-> es, displayName |-> n]
Denied == [kind |-> "denied", emails |-> <<>>, displayName |-> ""]

Assertions ==
  { Profile(<<"student1@stu.pathfinder-mm.org">>, "Student One"),
    Profile(<<"avagarimike11@gmail.com">>, "Mike"),
    Profile(<<"random@gmail.com">>, "Random"),
    Profile(<<>>, "Nobody"),
    Denied }

\* The assertions tried where requests overlap: one that the allow-list
\* accepts, one that it rejects and one without an email.
RaceAssertions ==
  { Profile(<<"student1@stu.pathfinder-mm.org">>, "Student One"),
    Profile(<<"random@gmail.com">>, "Random"),
    Profile(<<>>, "Nobody") }

(* ------------------------------ sessions ------------------------------ *)

\* The session's data: passport's user, and connect-flash's slot.  flash is
\* <<>> when the session has no flash key, <<msgs>> when it has one, msgs
\* being the "error" array (<<>> for a flash object without that array).
EmptySession == [user |-> <<>>, flash |-> <<>>]

FlashErrors(sess) == IF sess.flash = <<>> THEN <<>> ELSE sess.flash[1]

NoResp == <<>>
Resp(k, to, u, p) == <<[kind |-> k, to |-> to, user |-> u, panel |-> p]>>

Idle ==
  [pc |-> "idle", route |-> "none", client |-> 1, input |-> Denied,
   cookieId |-> <<>>, sid |-> <<>>, sess |-> <<>>, origId |-> <<>>,
   origData |-> EmptySession, savedData |-> <<>>, user |-> <<>>,
   done |-> <<>>, resp |-> NoResp,
   logoutErr |-> FALSE, destroyed |-> FALSE]

Busy(r) == r.pc # "idle"

\* store.generate's new identifier: a value carried by no cookie, request
\* or record.
FreshSid == 0

(* -------------------------- session identifiers ----------------------- *)

\* Session identifiers are unguessable random values, so only their
\* equalities matter, and a record that no cookie and no request in flight
\* names can never be read again.  Every step therefore ends by dropping
\* such records and renaming the identifiers: the one in client c's cookie
\* becomes c, the others are numbered after the clients in the order the
\* requests in flight name them.
RefSeq(rq, s) ==
  IF Busy(rq[s]) THEN rq[s].cookieId \o rq[s].origId \o rq[s].sid ELSE <<>>

Refs(rq) == RefSeq(rq, 1) \o RefSeq(rq, 2)

CookieSids(ck) == {ck[c][1] : c \in {d \in Clients : ck[d] # <<>>}}

Referenced(ck, rq) == CookieSids(ck) \cup {Refs(rq)[i] : i \in 1..Len(Refs(rq))}

Labels(ck, rq) ==
  LET L == Refs(rq)
      cs == CookieSids(ck)
  IN [x \in Referenced(ck, rq) |->
        IF x \in cs
        THEN CHOOSE c \in Clients : ck[c] = <<x>>
        ELSE LET first == CHOOSE i \in 1..Len(L) :
                            L[i] = x /\ \A j \in 1..(i - 1) : L[j] # x
             IN Cardinality(Clients)
                  + Cardinality({L[j] : j \in 1..first} \ cs)]

Relabel(lab, o) == IF o = <<>> THEN <<>> ELSE <<lab[o[1]]>>

Renamed(st, ck, rq, lab) ==
  LET kept == DOMAIN st \cap DOMAIN lab
  IN /\ store' = [y \in {lab[x] : x \in kept} |->
                    st[CHOOSE x \in kept : lab[x] = y]]
     /\ cookie' = [c \in Clients |-> Relabel(lab, ck[c])]
     /\ reqs' = [s \in Slots |->
                   IF Busy(rq[s])
                   THEN [rq[s] EXCEPT !.cookieId = Relabel(lab, @),
                                      !.origId = Relabel(lab, @),
                                      !.sid = Relabel(lab, @)]
                   ELSE rq[s]]

\* The step's new store, cookies and requests, with the identifiers renamed.
Commit(st, ck, rq) ==
  \E v \in {<<st, ck, rq>>} :
    \E lab \in {Labels(v[2], v[3])} : Renamed(v[1], v[2], v[3], lab)

(* ------------------------ session middleware -------------------------- *)

\* express-session at the start of a request: the cookie's identifier is
\* looked up in the store; a record found is inflated into req.session, and
\* otherwise (no cookie, or no live record) a new empty session with a new
\* identifier is generated.  passport.session() then sets req.user from the
\* session (deserializeUser is the identity).
SessionMiddleware(c) ==
  LET cid == cookie[c]
  IN IF cid # <<>> /\ cid[1] \in DOMAIN store
     THEN LET data == store[cid[1]].data
          IN [Idle EXCEPT !.client = c, !.cookieId = cid, !.sid = cid,
                          !.sess = <<data>>, !.origId = cid,
                          !.origData = data, !.savedData = <<data>>,
                          !.user = data.user]
     ELSE [Idle EXCEPT !.client = c, !.cookieId = cid,
                       !.sid = <<FreshSid>>, !.sess = <<EmptySession>>,
                       !.origId = <<FreshSid>>, !.origData = EmptySession]

\* A request can start when a slot is free.  (Slots and clients are
\* interchangeable: the lowest free slot is taken, and client 2 appears
\* once client 1 holds a cookie.  Where requests overlap, they are the
\* requests of one client.)
CanBegin(s, c) ==
  /\ Cardinality({t \in Slots : Busy(reqs[t])}) < limit
  /\ ~Busy(reqs[s])
  /\ \A t \in Slots : ~Busy(reqs[t]) => s <= t
  /\ \A d \in Clients : d < c => cookie[d] # <<>>
  /\ limit > 1 => c = 1

IsModified(r) == r.origId # r.sid \/ <<r.origData>> # r.sess
IsSaved(r) == r.origId = r.sid /\ r.savedData = r.sess

\* saveUninitialized: true
ShouldSave_Uninitialized(r) ==
  IF r.savedData = <<>> /\ r.cookieId # r.sid THEN TRUE ELSE ~IsSaved(r)

\* resave: false, saveUninitialized: false
ShouldSave(r) ==
  IF r.savedData = <<>> /\ r.cookieId # r.sid
  THEN IsModified(r)
  ELSE ~IsSaved(r)

ShouldTouch(r) == r.cookieId = r.sid /\ ~ShouldSave(r)

\* rolling: true comes with the maxAge cookie in the variants that set it.
ShouldSetCookie(v, r) ==
  IF r.cookieId # r.sid
  THEN IsModified(r)
  ELSE HasMaxAge(v) \/ (HasMaxAge(v) /\ IsModified(r))

\* store.set / store.touch / store.destroy.  A record is the session's
\* data and its expiry; created, the time the record was first written, is
\* kept for the statements about sliding expiration and read by no handler.
StoreSet(st, sid, data, exp, t) ==
  [x \in DOMAIN st \cup {sid} |->
     IF x = sid
     THEN [data |-> data, expires |-> exp,
           created |-> IF sid \in DOMAIN st THEN st[sid].created ELSE t]
     ELSE st[x]]
\* A touch that leaves the expiry where it was (fixed offset from the last
\* write).
StoreTouch_Fixed(st, sid, exp) == st
StoreTouch(st, sid, exp) ==
  IF sid \in DOMAIN st THEN [st EXCEPT ![sid].expires = exp] ELSE st
\* A destroy that empties the store.
StoreDestroy_All(st, sid) == [x \in {} |-> st[x]]
StoreDestroy(st, sid) == [x \in DOMAIN st \ {sid} |-> st[x]]

\* express-session's res.end: a destroyed session writes nothing, a
\* modified one is saved, an unmodified one that came from the store is
\* touched; each write moves the expiry to now + the configured span.
EndStore(v, r, st, t) ==
  IF r.sess = <<>> THEN st
  ELSE IF ShouldSave(r) THEN StoreSet(st, r.sid[1], r.sess[1], ExpiryAt(v, t), t)
  ELSE IF ShouldTouch(r) THEN StoreTouch(st, r.sid[1], ExpiryAt(v, t))
  ELSE st

EndCookie(v, r) ==
  IF r.sess # <<>> /\ ShouldSetCookie(v, r) THEN r.sid ELSE <<>>

(* ------------------------------ handlers ------------------------------ *)

\* req.isAuthenticated()
IsAuthenticated(r) == r.user # <<>>

\* A guard that lets every request through.
EnsureLoggedIn_Always(r) == TRUE

\* ensureLoggedIn: TRUE when next() is called
EnsureLoggedIn(r) == IsAuthenticated(r)

\* The panels the other way round.
Panel_Inverted(role) == IF role = "student" THEN "enrollment" ELSE "student"

\* The role-conditioned panel of the rendered dashboard.
Panel(role) == IF role = "student" THEN "student" ELSE "enrollment"

\* An uncaught exception in a handler: Express answers 500.
ServerError == Resp("error", "", <<>>, "none")

\* GET /dashboard: the page rendered from req.user, the static dashboard
\* file in the vercel variant.  (Reading a field of an undefined req.user
\* throws.)
Dashboard(v, r) ==
  IF EnsureLoggedIn(r)
  THEN IF v = "vercel"
       THEN Resp("file", "dashboard.html", <<>>, "none")
       ELSE IF r.user = <<>> THEN ServerError
       ELSE Resp("page", "/dashboard", r.user, Panel(r.user[1].role))
  ELSE Resp("redirect", EntryPage(v), <<>>, "none")

\* GET /api/session-info
SessionInfo(v, r) ==
  IF EnsureLoggedIn(r)
  THEN IF r.user = <<>> THEN ServerError
       ELSE Resp("json", "/api/session-info", r.user, "none")
  ELSE Resp("redirect", EntryPage(v), <<>>, "none")

\* GET /auth/google: passport redirects to the provider; nothing is stored.
AuthGoogle == Resp("redirect", "accounts.google.com", <<>>, "none")

\* req.flash("error"): the messages, and the session with the slot cleared
\* (the flash object is created when the session has none).
FlashRead(sess) == [sess EXCEPT !.flash = << <<>> >>]
\* A push that writes the session without its user.
FlashPush_DropsUser(sess, msg) ==
  [user |-> <<>>, flash |-> <<Append(FlashErrors(sess), msg)>>]
\* req.flash("error", msg)
FlashPush(sess, msg) == [sess EXCEPT !.flash = <<Append(FlashErrors(sess), msg)>>]

\* GET /auth/failure: the redirect it answers with
AuthFailure(sess) ==
  LET messages == FlashErrors(sess)
      errorMessage == IF Len(messages) > 0 THEN messages[1] ELSE GenericMessage
  IN Resp("redirect", "/index.html?authError=" \o EncodeURIComponent(errorMessage),
          <<>>, "none")

(* ------------------------- the verify callback ------------------------ *)

\* What the strategy's verify callback does with done: done(null, user),
\* done(null, false, {message}), done(err, null), or, where nothing catches
\* the TypeError of profile.emails[0].value, a rejected promise and no call
\* of done at all.
Done(k, u, m) == [kind |-> k, user |-> u, message |-> m]
Principal(e, n, r) == [email |-> e, name |-> n, role |-> r]

\* src/server.js 34-50: no authorization step, every email gets a user.
VerifyMemory(profile) ==
  IF profile.emails = <<>> THEN Done("throw", <<>>, "")
  ELSE LET email == profile.emails[1]
           role1 == IF EndsWith(email, StudentDomain) THEN "student" ELSE "general"
           role2 == IF email = ExceptionEmail THEN "student" ELSE role1
       IN Done("user", <<Principal(email, profile.displayName, role2)>>, "")

\* Two ifs the second of which has an else that resets the outcome.
TwoIfs_ElseResets(email) ==
  IF email = ExceptionEmail
  THEN [role |-> "student", isAuthorized |-> TRUE]
  ELSE [role |-> "general", isAuthorized |-> FALSE]

\* The two sequential ifs of the mongo, redis and postgres variants: each
\* is evaluated, a match sets role and isAuthorized.
TwoIfs(email) ==
  LET role0 == "general"
      auth0 == FALSE
      role1 == IF EndsWith(email, StudentDomain) THEN "student" ELSE role0
      auth1 == IF EndsWith(email, StudentDomain) THEN TRUE ELSE auth0
      role2 == IF email = ExceptionEmail THEN "student" ELSE role1
      auth2 == IF email = ExceptionEmail THEN TRUE ELSE auth1
  IN [role |-> role2, isAuthorized |-> auth2]

\* The single disjunction of the vercel variant.
OneIf(email) ==
  IF EndsWith(email, StudentDomain) \/ email = ExceptionEmail
  THEN [role |-> "student", isAuthorized |-> TRUE]
  ELSE [role |-> "general", isAuthorized |-> FALSE]

Decide(v, profile, d) ==
  IF ~d.isAuthorized
  THEN Done("fail", <<>>, RejectionMessage(v))
  ELSE Done("user",
               <<Principal(profile.emails[1], profile.displayName, d.role)>>, "")

\* src/server.js 189-216: no try/catch
VerifyMongo(profile) ==
  IF profile.emails = <<>> THEN Done("throw", <<>>, "")
  ELSE Decide("mongo", profile, TwoIfs(profile.emails[1]))

\* src/server.js 412-440
VerifyRedis(profile) ==
  IF profile.emails = <<>> THEN Done("error", <<>>, "")
  ELSE Decide("redis", profile, TwoIfs(profile.emails[1]))

\* src/server.js 606-632
VerifyVercel(profile) ==
  IF profile.emails = <<>> THEN Done("error", <<>>, "")
  ELSE Decide("vercel", profile, OneIf(profile.emails[1]))

\* The verify callback without its second condition.
VerifyPostgres_NoException(profile) ==
  IF profile.emails = <<>> THEN Done("error", <<>>, "")
  ELSE IF EndsWith(profile.emails[1], StudentDomain)
       THEN Done("user", <<Principal(profile.emails[1], profile.displayName,
                                        "student")>>, "")
       ELSE Done("fail", <<>>, RejectionMessage("postgres"))

\* src/unnamed/part_000 92-120
VerifyPostgres(profile) ==
  IF profile.emails = <<>> THEN Done("error", <<>>, "")
  ELSE Decide("postgres", profile, TwoIfs(profile.emails[1]))

\* The strategy on the callback request: a refusal by the user fails
\* without a message; a profile goes to the variant's verify callback.
Verify(v, a) ==
  IF a.kind = "denied" THEN Done("fail", <<>>, "")
  ELSE CASE v = "memory" -> VerifyMemory(a)
         [] v = "mongo" -> VerifyMongo(a)
         [] v = "redis" -> VerifyRedis(a)
         [] v = "vercel" -> VerifyVercel(a)
         [] OTHER -> VerifyPostgres(a)

(* ------------------------------ actions ------------------------------- *)

Start(n) ==
  /\ variant \in Variants
  /\ limit = n
  /\ now = 0
  /\ store = [x \in {} |-> 0]
  /\ cookie = [c \in Clients |-> <<>>]
  /\ reqs = [s \in Slots |-> Idle]

\* A request whose handler has answered synchronously waits for
\* express-session's write at the end of the response.
Answered(r, route, resp) ==
  [r EXCEPT !.pc = "ending", !.route = route, !.resp = resp]

\* GET /auth/google
BeginLogin(s, c) ==
  /\ CanBegin(s, c)
  /\ Commit(store, cookie,
            [reqs EXCEPT ![s] = Answered(SessionMiddleware(c), "login", AuthGoogle)])
  /\ UNCHANGED <<variant, limit, now>>

\* GET /dashboard
BeginDashboard(s, c) ==
  /\ CanBegin(s, c)
  /\ LET r == SessionMiddleware(c)
     IN Commit(store, cookie,
               [reqs EXCEPT ![s] = Answered(r, "dashboard", Dashboard(variant, r))])
  /\ UNCHANGED <<variant, limit, now>>

\* GET /api/session-info
BeginSessionInfo(s, c) ==
  /\ HasSessionInfo(variant)
  /\ CanBegin(s, c)
  /\ LET r == SessionMiddleware(c)
     IN Commit(store, cookie,
               [reqs EXCEPT ![s] = Answered(r, "sessionInfo", SessionInfo(variant, r))])
  /\ UNCHANGED <<variant, limit, now>>

\* GET /auth/failure
BeginFailure(s, c) ==
  /\ HasFailureRoute(variant)
  /\ CanBegin(s, c)
  /\ LET r == SessionMiddleware(c)
         read == [r EXCEPT !.sess = <<FlashRead(r.sess[1])>>]
     IN Commit(store, cookie,
               [reqs EXCEPT ![s] = Answered(read, "failure", AuthFailure(r.sess[1]))])
  /\ UNCHANGED <<variant, limit, now>>

\* The end of a response: express-session writes the session, then the
\* response leaves with its Set-Cookie header and the client keeps the
\* cookie it sets.
End(s) ==
  /\ reqs[s].pc = "ending"
  /\ Commit(EndStore(variant, reqs[s], store, now),
            IF EndCookie(variant, reqs[s]) # <<>>
            THEN [cookie EXCEPT ![reqs[s].client] = EndCookie(variant, reqs[s])]
            ELSE cookie,
            [reqs EXCEPT ![s] = Idle])
  /\ UNCHANGED <<variant, limit, now>>

\* A request that is never answered is given up by the client.
GiveUp(s) ==
  /\ reqs[s].pc = "hung"
  /\ Commit(store, cookie, [reqs EXCEPT ![s] = Idle])
  /\ UNCHANGED <<variant, limit, now>>

\* Time passes between requests; records past their expiry are gone.
Tick ==
  /\ \A s \in Slots : ~Busy(reqs[s])
  /\ now < MaxTicks * Step
  /\ now' = now + Step
  /\ Commit([x \in {y \in DOMAIN store :
                        store[y].expires = <<>> \/ store[y].expires[1] > now'}
                 |-> store[x]],
            cookie, reqs)
  /\ UNCHANGED <<variant, limit>>

(* --------------------------- the callback ----------------------------- *)

\* GET /auth/google/callback arrives: the session is loaded, then passport
\* exchanges the code with the provider.
BeginCallback(s, c, a) ==
  /\ CanBegin(s, c)
  /\ limit > 1 => a \in RaceAssertions
  /\ Commit(store, cookie,
            [reqs EXCEPT ![s] = [SessionMiddleware(c) EXCEPT
                                   !.pc = "provider", !.route = "callback",
                                   !.input = a]])
  /\ UNCHANGED <<variant, limit, now>>

\* req.logIn: the session is regenerated under a new identifier (the old
\* record is destroyed, its data dropped), the user is put in it and it is
\* saved; the route's handler then redirects to the dashboard.
LogIn(r, done, new) ==
  [r EXCEPT !.sid = <<new>>,
            !.sess = <<[user |-> done.user, flash |-> <<>>]>>,
            !.user = done.user,
            !.resp = Resp("redirect", "/dashboard", <<>>, "none"),
            !.pc = "ending"]

\* passport.authenticate("google", {failureRedirect, failureFlash}) once
\* the strategy's verify callback has called back.
Authenticate(v, r, done, new) ==
  CASE done.kind = "user" -> LogIn(r, done, new)
    [] done.kind = "fail" ->
         [r EXCEPT !.sess = IF FailureFlash(v) /\ done.message # ""
                            THEN <<FlashPush(r.sess[1], done.message)>>
                            ELSE r.sess,
                   !.resp = Resp("redirect", FailureRedirect(v), <<>>, "none"),
                   !.pc = "ending"]
    [] done.kind = "error" ->
         [r EXCEPT !.resp = ServerError, !.pc = "ending"]
    [] OTHER -> [r EXCEPT !.pc = "hung"]

CallbackVerify(s) ==
  /\ reqs[s].pc = "provider"
  /\ LET r == reqs[s]
         done == Verify(variant, r.input)
     IN /\ (done.kind = "fail" /\ FailureFlash(variant))
             => Len(FlashErrors(r.sess[1])) < MaxFlash
        /\ Commit(IF done.kind = "user"
                  THEN StoreSet(StoreDestroy(store, r.sid[1]), FreshSid,
                                [user |-> done.user, flash |-> <<>>],
                                ExpiryAt(variant, now), now)
                  ELSE store,
                  cookie,
                  [reqs EXCEPT ![s] =
                     [Authenticate(variant, r, done, FreshSid)
                        EXCEPT !.done = <<done>>]])
  /\ UNCHANGED <<variant, limit, now>>

(* ------------------------------ logout -------------------------------- *)

BeginLogout(s, c) ==
  /\ CanBegin(s, c)
  /\ Commit(store, cookie,
            [reqs EXCEPT ![s] = [SessionMiddleware(c) EXCEPT
                                   !.pc = "logout", !.route = "logout"]])
  /\ UNCHANGED <<variant, limit, now>>

\* How req.logout can end: the user is removed from the session and the
\* session saved ("saveErr" when that write fails), then the session is
\* regenerated ("destroyErr" when the store's destroy of the old record
\* fails).  MemoryStore reports no errors.
LogoutOutcomes(v) ==
  IF DurableStore(v) THEN {"ok", "saveErr", "destroyErr"} ELSE {"ok"}

Userless(r) == [r.sess[1] EXCEPT !.user = <<>>]

\* req.logout's effect on the request
ReqLogout(r, outcome, new) ==
  IF outcome = "saveErr"
  THEN [r EXCEPT !.sess = <<Userless(r)>>, !.savedData = <<Userless(r)>>,
                 !.user = <<>>, !.logoutErr = TRUE]
  ELSE [r EXCEPT !.sid = <<new>>, !.sess = <<EmptySession>>,
                 !.savedData = <<Userless(r)>>, !.user = <<>>,
                 !.logoutErr = (outcome = "destroyErr")]

\* req.logout's effect on the store
ReqLogoutStore(v, r, outcome, st, t) ==
  CASE outcome = "saveErr" -> st
    [] outcome = "destroyErr" ->
         StoreSet(st, r.sid[1], Userless(r), ExpiryAt(v, t), t)
    [] OTHER -> StoreDestroy(st, r.sid[1])

\* req.session.destroy(cb): req.session is unset at once, the store's
\* destroy is under way.
SessionDestroy(r) == [r EXCEPT !.pc = "destroying", !.sess = <<>>]

\* src/server.js 122-135 and 301-313
LogoutRedirectOnErr(r) ==
  IF r.logoutErr
  THEN Answered(r, "logout", Resp("redirect", "/", <<>>, "none"))
  ELSE SessionDestroy(r)

\* src/server.js 510-515 and src/unnamed/part_000 196-201
LogoutNextOnErr(r) ==
  IF r.logoutErr
  THEN Answered(r, "logout", ServerError)
  ELSE SessionDestroy(r)

\* src/server.js 679-683
LogoutIgnoreErr(r) == SessionDestroy(r)

\* The callback the /logout handler passes to req.logout
LogoutCallback(v, r) ==
  CASE v \in {"memory", "mongo"} -> LogoutRedirectOnErr(r)
    [] v \in {"redis", "postgres"} -> LogoutNextOnErr(r)
    [] OTHER -> LogoutIgnoreErr(r)

LogoutPassport(s, outcome) ==
  /\ reqs[s].pc = "logout"
  /\ outcome \in LogoutOutcomes(variant)
  /\ Commit(ReqLogoutStore(variant, reqs[s], outcome, store, now),
            cookie,
            [reqs EXCEPT ![s] =
               LogoutCallback(variant, ReqLogout(reqs[s], outcome, FreshSid))])
  /\ UNCHANGED <<variant, limit, now>>

\* The store answers the destroy (ok = FALSE: with an error); the callback
\* of req.session.destroy redirects whatever the answer.
LogoutDestroyed(s, ok) ==
  /\ reqs[s].pc = "destroying"
  /\ ok \in (IF DurableStore(variant) THEN BOOLEAN ELSE {TRUE})
  /\ Commit(IF ok THEN StoreDestroy(store, reqs[s].sid[1]) ELSE store,
            cookie,
            [reqs EXCEPT ![s].pc = "ending",
                         ![s].destroyed = TRUE,
                         ![s].resp = Resp("redirect", "/index.html", <<>>, "none")])
  /\ UNCHANGED <<variant, limit, now>>

(* --------------------------- specification ---------------------------- *)

Requests ==
  \/ \E s \in Slots, c \in Clients : BeginLogin(s, c)
  \/ \E s \in Slots, c \in Clients : BeginDashboard(s, c)
  \/ \E s \in Slots, c \in Clients : BeginSessionInfo(s, c)
  \/ \E s \in Slots, c \in Clients : BeginFailure(s, c)
  \/ \E s \in Slots, c \in Clients, a \in Assertions : BeginCallback(s, c, a)
  \/ \E s \in Slots, c \in Clients : BeginLogout(s, c)
  \/ \E s \in Slots : CallbackVerify(s)
  \/ \E s \in Slots, o \in {"ok", "saveErr", "destroyErr"} : LogoutPassport(s, o)
  \/ \E s \in Slots, ok \in BOOLEAN : LogoutDestroyed(s, ok)
  \/ \E s \in Slots : End(s)
  \/ \E s \in Slots : GiveUp(s)

Next == Requests \/ Tick

\* Requests one after another.
Init == Start(1)
Spec == Init /\ [][Next]_vars

\* Two requests of one client can be in flight at once, within a span of
\* time in which no record expires.
InitRace == Start(2)
SpecRace == InitRace /\ [][Requests]_vars


(* ------------------------------ properties ---------------------------- *)

\* The allow-list as the specification states it.
AllowListed(email) ==
  EndsWith(email, StudentDomain) \/ email = ExceptionEmail

\* The callback requests whose verify callback has called back on a
\* profile with an email.
Judged(s) ==
  /\ reqs[s].route = "callback"
  /\ reqs[s].done # <<>>
  /\ reqs[s].input.kind = "profile"
  /\ reqs[s].input.emails # <<>>

\* The Principal in the session that client c's cookie names (<<>>: none).
Held(c) ==
  IF cookie[c] # <<>> /\ cookie[c][1] \in DOMAIN store
  THEN store[cookie[c][1]].data.user
  ELSE <<>>

\* C1: in every variant, an email that neither ends with the student domain
\* nor equals the exception address yields no Principal from the verify
\* callback, and no session record holds a Principal with such an email.
\* (The memory variant gives every email a Principal.)
C1_OthersYieldNoPrincipal ==
  /\ \A s \in Slots :
       (Judged(s) /\ ~AllowListed(reqs[s].input.emails[1]))
         => /\ reqs[s].done[1].kind # "user"
            /\ reqs[s].done[1].user = <<>>
  /\ \A x \in DOMAIN store :
       store[x].data.user # <<>> => AllowListed(store[x].data.user[1].email)

\* C2: an email that ends with the student domain or equals the exception
\* address yields a Principal made of that email, the profile's display
\* name and the role "student".
C2_AllowListedYieldStudent ==
  \A s \in Slots :
    (Judged(s) /\ AllowListed(reqs[s].input.emails[1]))
      => reqs[s].done[1] =
           Done("user",
                   <<Principal(reqs[s].input.emails[1],
                               reqs[s].input.displayName, "student")>>,
                   "")

\* The exception address has been judged by the two-ifs verify callback.
C2_Witness ==
  \E s \in Slots :
    /\ variant = "postgres"
    /\ Judged(s)
    /\ reqs[s].input.emails[1] = ExceptionEmail
    /\ reqs[s].done[1].kind = "user"

\* A request of a protected route starts in slot s in this step.
ProtectedArrives(s) ==
  /\ ~Busy(reqs[s])
  /\ reqs'[s].route \in {"dashboard", "sessionInfo"}

\* C3: a request to a protected route on a session that holds no Principal
\* is answered with a redirect to the public entry page that carries nothing
\* of a Principal, and the protected handler's answer (the page, the file or
\* the JSON) is given only when the session holds a Principal.
C3_ProtectedRoutesGuarded ==
  [][\A s \in Slots :
       ProtectedArrives(s) =>
         LET c == reqs'[s].client
             resp == reqs'[s].resp
         IN /\ Len(resp) = 1
            /\ Held(c) = <<>> =>
                 /\ resp[1].kind = "redirect"
                 /\ resp[1].to \in {"/index.html", "/login.html"}
                 /\ resp[1].user = <<>>
                 /\ resp[1].panel = "none"
            /\ resp[1].kind # "redirect" =>
                 /\ Held(c) # <<>>
                 /\ resp[1].kind \in {"page", "file", "json"}
                 /\ resp[1].user \in {<<>>, Held(c)}]_vars

\* A dashboard request that presents the cookie of a session that is gone
\* has been redirected.
C3_Witness ==
  \E s \in Slots :
    /\ reqs[s].route = "dashboard"
    /\ reqs[s].cookieId # <<>>
    /\ reqs[s].cookieId # reqs[s].sid
    /\ reqs[s].user = <<>>
    /\ reqs[s].resp = Resp("redirect", "/index.html", <<>>, "none")

\* C4: a callback whose email the allow-list rejects is answered with a
\* redirect to the failure route, the rejection message is stored in the
\* session where the variant stores one, and the session holds no Principal
\* afterwards.  (The memory variant logs such an email in.)
C4_RejectedCallback ==
  \A s \in Slots :
    (Judged(s) /\ ~AllowListed(reqs[s].input.emails[1]))
      => /\ Len(reqs[s].resp) = 1
         /\ reqs[s].resp[1].kind = "redirect"
         /\ reqs[s].resp[1].to
              \in {"/auth/failure", "/auth-failed.html", "/login.html"}
         /\ reqs[s].user = <<>>
         /\ reqs[s].sess[1].user = <<>>
         /\ variant # "memory" => FlashErrors(reqs[s].sess[1]) # <<>>

\* The session of client c holds a Principal with a student-domain email.
StudentHeld(c) ==
  /\ Held(c) # <<>>
  /\ EndsWith(Held(c)[1].email, StudentDomain)

\* A request of client c for the logout or callback route acts in this
\* step, or the response to a request of c that was not on the session of
\* c's cookie leaves with its own cookie.
EndsOrReplaces(c) ==
  \E s \in Slots :
    /\ reqs[s].client = c
    /\ reqs'[s] # reqs[s]
    /\ \/ reqs[s].route \in {"logout", "callback"}
       \/ reqs[s].pc = "ending" /\ reqs[s].sid # cookie[c]

LogoutAnswered(s) ==
  /\ reqs[s].route = "logout"
  /\ reqs[s].pc = "ending"

\* C6: when a logout on an authenticated session has been answered, the
\* session's record is gone from the store.  (A failed write in req.logout
\* is answered while the record still holds the Principal.)
C6_LogoutRemovesRecord ==
  \A s \in Slots :
    (LogoutAnswered(s) /\ reqs[s].origData.user # <<>>)
      => reqs[s].origId[1] \notin DOMAIN store

\* C7: every request to /logout is answered with a redirect to the landing
\* page, whether or not the logout step or the destroy reports an error.
\* (Two variants hand the error to next.)
C7_LogoutAlwaysRedirects ==
  \A s \in Slots :
    LogoutAnswered(s)
      => /\ reqs[s].resp[1].kind = "redirect"
         /\ reqs[s].resp[1].to \in {"/index.html", "/"}

\* C8: the failure route reads the stored message once: it redirects to
\* /index.html with the first stored message as authError, or with
\* "Login failed." when none is stored, and leaves the slot cleared; and
\* every variant that stores a message has the failure route that reads it.
\* (One variant stores the message and has no such route.)
C8_FlashReadOnce ==
  /\ \A s \in Slots :
       reqs[s].route = "failure" =>
         /\ FlashErrors(reqs[s].sess[1]) = <<>>
         /\ reqs[s].resp[1].kind = "redirect"
         /\ reqs[s].resp[1].to =
              IF FlashErrors(reqs[s].origData) = <<>>
              THEN "/index.html?authError=Login%20failed."
              ELSE "/index.html?authError="
                     \o EncodeURIComponent(FlashErrors(reqs[s].origData)[1])
  /\ \A x \in DOMAIN store :
       FlashErrors(store[x].data) # <<>>
         => variant \in {"mongo", "redis", "postgres"}

\* The variants that configure the 14-day cookie maxAge with rolling.
Sliding == variant \in {"redis", "vercel", "postgres"}

\* The response of the request in slot s leaves in this step.
Ends(s) == reqs[s].pc = "ending" /\ reqs'[s].pc = "idle"

\* C9: in the variants with the 14-day maxAge the expiry slides: the end of
\* every request on a session that lives in the store moves the record's
\* expiry to 14 days from now; a record lives exactly until that expiry, so
\* a session with requests less than 14 days apart outlives 14 days from
\* its creation and one without a request for 14 days is gone.
C9_SlidingExpiry ==
  /\ [](Sliding =>
          \A x \in DOMAIN store :
            /\ store[x].expires # <<>>
            /\ now < store[x].expires[1]
            /\ store[x].expires[1] <= now + 14 * 24 * 60 * 60)
  /\ [][Sliding =>
          /\ \A s \in Slots :
               (/\ Ends(s)
                /\ reqs[s].sess # <<>>
                /\ reqs[s].sid = cookie[reqs[s].client]
                /\ reqs[s].sid[1] \in DOMAIN store)
                 => /\ reqs[s].sid[1] \in DOMAIN store'
                    /\ store'[reqs[s].sid[1]].expires
                         = <<now + 14 * 24 * 60 * 60>>
          /\ now' # now =>
               \A x \in DOMAIN store :
                 IF store[x].expires[1] > now'
                 THEN x \in DOMAIN store' /\ store'[x] = store[x]
                 ELSE x \notin DOMAIN store']_vars

\* A session created more than 14 days ago still holds its Principal.
C9_Witness ==
  \E c \in Clients :
    /\ variant = "postgres"
    /\ Held(c) # <<>>
    /\ now - store[cookie[c][1]].created > 14 * 24 * 60 * 60

\* C10: the redirect that answers a logout is sent only after the store's
\* destroy has called back, so no answered logout leaves the session's
\* record in the store.  (The error branch of req.logout redirects without
\* calling destroy.)
C10_RedirectAfterDestroy ==
  \A s \in Slots :
    (LogoutAnswered(s) /\ reqs[s].resp[1].kind = "redirect")
      => /\ reqs[s].destroyed
         /\ reqs[s].origId[1] \notin DOMAIN store

\* The callback requests whose verify callback has run on a profile that
\* carries no email.
JudgedWithoutEmail(s) ==
  /\ reqs[s].route = "callback"
  /\ reqs[s].pc # "provider"
  /\ reqs[s].input.kind = "profile"
  /\ reqs[s].input.emails = <<>>

\* C11: a callback whose profile carries no email is answered, with a
\* redirect to the failure route and no Principal set: it is neither left
\* unanswered nor answered with an internal error.  (The verify callback
\* reads profile.emails[0].value: the TypeError is handed to done as an
\* error where a try/catch surrounds it, and lost in a rejected promise
\* where none does.)
C11_NoEmailIsFailure ==
  \A s \in Slots :
    JudgedWithoutEmail(s)
      => /\ reqs[s].pc = "ending"
         /\ Len(reqs[s].resp) = 1
         /\ reqs[s].resp[1].kind = "redirect"
         /\ reqs[s].resp[1].to
              \in {"/auth/failure", "/auth-failed.html", "/login.html"}
         /\ reqs[s].user = <<>>

\* A logout request of client c acts in this step, or the clock advances.
LogoutOrExpiry(c) ==
  \/ now' # now
  \/ \E s \in Slots :
       /\ reqs[s].client = c
       /\ reqs[s].route = "logout"
       /\ reqs[s].pc \in {"logout", "destroying"}

\* The verify callback of a callback request of client c accepts in this
\* step: req.logIn regenerates the session.
LoginReplaces(c) ==
  \E s \in Slots :
    /\ reqs[s].client = c
    /\ reqs[s].pc = "provider"
    /\ reqs'[s].done # <<>>
    /\ reqs'[s].done[1].kind = "user"

\* Requests that overlap: the response that leaves in this step belongs to
\* a request of client c that was not on the session of c's cookie, or that
\* loaded the session before another request changed or removed its
\* record; it leaves with its own cookie, or writes its own copy of the
\* session (the last write wins).
Overlapped(c) ==
  \E s \in Slots :
    /\ reqs[s].client = c
    /\ reqs[s].pc = "ending"
    /\ reqs'[s].pc = "idle"
    /\ \/ reqs[s].sid # cookie[c]
       \/ reqs[s].sid[1] \notin DOMAIN store
       \/ reqs[s].savedData # <<store[reqs[s].sid[1]].data>>

\* C12 as stated: a Principal held by a session stays as it is until a
\* logout or the expiry removes it, whatever requests are made, a further
\* callback included.
C12_OnlyLogoutOrExpiry ==
  [][\A c \in Clients :
       Held(c) # <<>> =>
         \/ Held(c)' = Held(c)
         \/ Held(c)' = <<>> /\ LogoutOrExpiry(c)]_vars

\* C12: the email, name and role of a Principal held by a session are
\* never changed in place: the session keeps its Principal until a logout,
\* the expiry, or a further callback that the allow-list accepts, whose
\* login destroys the session and starts a new one; a rejected callback and
\* the requests of every other route leave it as it is.  (Where requests
\* overlap, the last write wins.)
C12_PrincipalNeverRewritten ==
  [][\A c \in Clients :
       Held(c) # <<>> =>
         \/ Held(c)' = Held(c)
         \/ Held(c)' = <<>> /\ (LogoutOrExpiry(c) \/ LoginReplaces(c))
         \/ Overlapped(c)]_vars

\* A callback has been rejected on a session that holds a Principal, which
\* it still holds.
C12_Witness ==
  \E s \in Slots :
    /\ reqs[s].route = "callback"
    /\ reqs[s].done # <<>>
    /\ reqs[s].done[1].kind = "fail"
    /\ reqs[s].origData.user # <<>>
    /\ Held(reqs[s].client) = reqs[s].origData.user

\* The request r is for login-start or a protected route
\* and found no live session (no cookie, or a cookie whose record is gone).
WithoutSession(r) ==
  /\ r.route \in {"login", "dashboard", "sessionInfo"}
  /\ r.savedData = <<>>

\* The records of a store, whatever their identifiers.
Records(st) == {st[x] : x \in DOMAIN st}

\* C13: a request to login-start or to a protected route that arrives
\* without a live session writes nothing at the end of its response and
\* gets no cookie, and the store holds the same records before and after
\* each of its steps.
C13_NoRecordWithoutWrite ==
  /\ [](\A s \in Slots :
          (reqs[s].pc = "ending" /\ WithoutSession(reqs[s]))
            => /\ EndStore(variant, reqs[s], store, now) = store
               /\ EndCookie(variant, reqs[s]) = <<>>)
  /\ [][\A s \in Slots :
          (\/ ~Busy(reqs[s]) /\ Busy(reqs'[s]) /\ WithoutSession(reqs'[s])
           \/ Busy(reqs[s]) /\ ~Busy(reqs'[s]) /\ WithoutSession(reqs[s]))
            => /\ Records(store') = Records(store)
               /\ Cardinality(DOMAIN store') = Cardinality(DOMAIN store)
               /\ cookie' = cookie]_vars

\* A login-start request presents the cookie of a session that is gone
\* while the store holds the session of another client.
C13_Witness ==
  \E s \in Slots :
    /\ reqs[s].route = "login"
    /\ reqs[s].pc = "ending"
    /\ reqs[s].cookieId # <<>>
    /\ reqs[s].savedData = <<>>
    /\ DOMAIN store # {}

\* The response of the request in slot s leaves in this step and its
\* session is saved under an identifier whose record the request had
\* loaded and which a logout, now answered, has destroyed since.
WritesBack(s) ==
  /\ Ends(s)
  /\ \E t \in Slots :
       /\ reqs[t].route = "logout"
       /\ reqs[t].destroyed
       /\ reqs[t].origId = reqs[s].sid
  /\ reqs[s].savedData # <<>>
  /\ reqs[s].sess # <<>>
  /\ reqs[s].sid = reqs[s].origId
  /\ reqs[s].sid[1] \notin DOMAIN store
  /\ reqs[s].sid[1] \in DOMAIN store'

\* C14: whatever the interleaving of a logout with the other requests in
\* flight on the same session, a request that loaded the session before
\* the destroy never writes the authenticated session back after it.
\* (The write at the end of a response is an upsert: a request that
\* modified the session, as the flash read of /auth/failure does, creates
\* the destroyed record again with the Principal it had loaded.)
C14_NoWriteBackAfterDestroy ==
  [][\A s \in Slots :
       WritesBack(s) => store'[reqs[s].sid[1]].data.user = <<>>]_vars

\* C15: a callback establishes a Principal only on a session that a
\* login-start request has put into PendingProviderRedirect, so the
\* callback request that logs in presents the cookie of a live session
\* that holds that state.  (Login-start stores nothing and the strategy is
\* configured without a state parameter: a callback is accepted from a
\* client that never made a login-start request and presents no session.)
C15_CallbackNeedsPendingLogin ==
  \A s \in Slots :
    (Judged(s) /\ reqs[s].done[1].kind = "user")
      => /\ reqs[s].cookieId # <<>>
         /\ reqs[s].savedData # <<>>

\* C16: the role "general" is never surfaced: every Principal stored in a
\* session has role "student" and an email the allow-list accepts, and no
\* response shows another role or the enrollment panel.  (The memory
\* variant stores and renders role "general".)
C16_GeneralNeverSurfaced ==
  /\ \A x \in DOMAIN store :
       store[x].data.user # <<>>
         => /\ store[x].data.user[1].role = "student"
            /\ AllowListed(store[x].data.user[1].email)
  /\ \A s \in Slots :
       Len(reqs[s].resp) = 1
         => /\ reqs[s].resp[1].panel # "enrollment"
            /\ reqs[s].resp[1].user # <<>>
                 => reqs[s].resp[1].user[1].role = "student"

\* C17: the response to a logout clears the session cookie: when it has
\* left, the client holds no session identifier for its next request.
\* (No handler clears the cookie and express-session sends no Set-Cookie
\* for a destroyed session: the client keeps the identifier.)
C17_LogoutClearsCookie ==
  [][\A s \in Slots :
       (/\ Ends(s)
        /\ reqs[s].route = "logout"
        /\ reqs[s].destroyed
        /\ reqs[s].cookieId # <<>>)
         => cookie'[reqs[s].client] = <<>>]_vars

\* Emails that match the first predicate only, the second only and none,
\* with near misses of both.  (No email matches both: the exception
\* address does not end with the student domain.)
SampleEmails ==
  { "student1@stu.pathfinder-mm.org", "@stu.pathfinder-mm.org",
    "avagarimike11@gmail.com", "random@gmail.com",
    "x@stu.pathfinder-mm.org.evil.com", "stu.pathfinder-mm.org",
    "avagarimike11@gmail.com ", "xavagarimike11@gmail.com",
    "Avagarimike11@gmail.com", "a@STU.pathfinder-mm.org", "" }

\* C18: the two sequential ifs give every email the same role and
\* isAuthorized as the single disjunction, an email that matches neither
\* predicate is unauthorized in both, and what every variant with an
\* allow-list passes to done is what the other form would have passed.
C18_TwoIfsEqualOneIf ==
  /\ \A e \in SampleEmails :
       /\ TwoIfs(e) = OneIf(e)
       /\ ~AllowListed(e) => ~TwoIfs(e).isAuthorized /\ ~OneIf(e).isAuthorized
       /\ AllowListed(e) => TwoIfs(e) = [role |-> "student", isAuthorized |-> TRUE]
  /\ \A s \in Slots :
       Judged(s) =>
         LET e == reqs[s].input.emails[1]
         IN /\ TwoIfs(e) = OneIf(e)
            /\ variant \in {"mongo", "redis", "postgres"} =>
                 reqs[s].done[1] = Decide(variant, reqs[s].input, OneIf(e))
            /\ variant = "vercel" =>
                 reqs[s].done[1] = Decide(variant, reqs[s].input, TwoIfs(e))

\* The two-ifs verify callback has judged the exception address, which its
\* second if alone matches, as the disjunction would.
C18_Witness ==
  \E s \in Slots :
    /\ variant = "redis"
    /\ Judged(s)
    /\ reqs[s].input.emails[1] = ExceptionEmail
    /\ reqs[s].done[1]
         = Decide("redis", reqs[s].input, OneIf(ExceptionEmail))
    /\ reqs[s].done[1].kind = "user"

\* The record of the session that client c's cookie names (<<>>: none).
RecordOf(c) ==
  IF cookie[c] # <<>> /\ cookie[c][1] \in DOMAIN store
  THEN <<store[cookie[c][1]]>>
  ELSE <<>>

\* The client whose request acts in slot s in this step.
Actor(s) == IF Busy(reqs[s]) THEN reqs[s].client ELSE reqs'[s].client

\* C19: sessions are isolated by identifier: a step of a request made with
\* one client's session leaves the record (Principal, flash slot, expiry)
\* and the cookie of every other client's session as they were.
C19_SessionsIsolated ==
  [][now' = now =>
       \A s \in Slots :
         reqs'[s] # reqs[s] =>
           \A d \in Clients \ {Actor(s)} :
             /\ RecordOf(d)' = RecordOf(d)
             /\ cookie'[d] = cookie[d]]_vars

\* A logout of client 1 on an authenticated session has been answered while
\* client 2 holds a session with a Principal.
C19_Witness ==
  \E s \in Slots :
    /\ reqs[s].route = "logout"
    /\ reqs[s].client = 1
    /\ reqs[s].origData.user # <<>>
    /\ reqs[s].destroyed
    /\ Held(2) # <<>>

\* C20: a logout on a session that holds no Principal (already logged out,
\* or never authenticated) is answered like the first one, with the
\* redirect to /index.html from the destroy callback and without an error.
\* (req.logout saves and regenerates the session even when it holds no
\* user, and a store error in it takes the error branch of the handler.)
C20_LogoutIdempotent ==
  \A s \in Slots :
    (LogoutAnswered(s) /\ reqs[s].origData.user = <<>>)
      => /\ reqs[s].resp = Resp("redirect", "/index.html", <<>>, "none")
         /\ reqs[s].destroyed
         /\ ~reqs[s].logoutErr

====
